---- MODULE Spec2Model ----
(***************************************************************************)
(* Model of script5.py: the air-conditioner consumption simulator.         *)
(*                                                                         *)
(* Texts are sequences of one-character strings, so that the regular       *)
(* expressions of the script are evaluated character by character.         *)
(* A power value (a Python float, in watts) is a record [w, nw]: whole     *)
(* watts and the remainder in nanowatts (0 .. 10^9 - 1); every value the   *)
(* model computes is exact in that representation.  Python's None is the   *)
(* record None.                                                            *)
(***************************************************************************)
EXTENDS Integers, Sequences, FiniteSets, TLC

VARIABLES
    pc,                 \* position of the script run
    model_name,         \* st.text_input: TRUE when a model name was typed
    button,             \* st.button: TRUE when the search button was clicked
    consumption,        \* manual st.number_input (W)
    cooling_power,      \* manual st.number_input (W)
    energy_class,       \* manual st.selectbox
    anchors,            \* fetch_product_specs: <a href> of the search page
    pdf_links,          \* fetch_product_specs: local pdf_links
    pdf_stage,          \* how far the PDF branch of the call went
    html_stage,         \* how far the HTML branch of the call went
    log,                \* outbound requests.get calls of the call, in order
    text,               \* source text handed to extract_specs_from_text
    ret,                \* value returned by fetch_product_specs
    specs,              \* script variable specs
    final_consumption,  \* script variable final_consumption
    final_cooling,      \* script variable final_cooling
    shown_class,        \* value of the third metric (energy class)
    val_str,            \* argument of a direct parse_power_value call
    parsed              \* its result

vars == <<pc, model_name, button, consumption, cooling_power, energy_class,
          anchors, pdf_links, pdf_stage, html_stage, log, text, ret, specs,
          final_consumption, final_cooling, shown_class, val_str, parsed>>

----------------------------------------------------------------------------
(* Bounds *)

MaxPhrases == 2         \* phrases concatenated into one source text
MaxLinks == 2           \* <a href> elements on the search page

----------------------------------------------------------------------------
(* Values *)

None == [none |-> TRUE]

Watts(n) == [w |-> n, nw |-> 0]

\* Python truthiness of a float or None: None and 0.0 are falsy.
Truthy(v) == v # None /\ v # Watts(0)

----------------------------------------------------------------------------
(* Characters *)

Digits == {"0", "1", "2", "3", "4", "5", "6", "7", "8", "9"}

DigitVal(c) ==
    CASE c = "0" -> 0 [] c = "1" -> 1 [] c = "2" -> 2 [] c = "3" -> 3
      [] c = "4" -> 4 [] c = "5" -> 5 [] c = "6" -> 6 [] c = "7" -> 7
      [] c = "8" -> 8 [] c = "9" -> 9

\* [.,] of the character classes [\d.,]
NumSeps == {".", ","}

\* \s
WhiteSpace == {" ", "\n"}

\* [:\s]
LabelSeps == {":"} \cup WhiteSpace

ToLower ==
    ("A" :> "a") @@ ("B" :> "b") @@ ("C" :> "c") @@ ("D" :> "d") @@
    ("E" :> "e") @@ ("F" :> "f") @@ ("G" :> "g") @@ ("H" :> "h") @@
    ("I" :> "i") @@ ("J" :> "j") @@ ("K" :> "k") @@ ("L" :> "l") @@
    ("M" :> "m") @@ ("N" :> "n") @@ ("O" :> "o") @@ ("P" :> "p") @@
    ("Q" :> "q") @@ ("R" :> "r") @@ ("S" :> "s") @@ ("T" :> "t") @@
    ("U" :> "u") @@ ("V" :> "v") @@ ("W" :> "w") @@ ("X" :> "x") @@
    ("Y" :> "y") @@ ("Z" :> "z") @@ ("É" :> "é")

LowerChar(c) == IF c \in DOMAIN ToLower THEN ToLower[c] ELSE c

\* str.lower()
Lower(s) == [i \in 1..Len(s) |-> LowerChar(s[i])]

\* A literal of a pattern compiled with re.IGNORECASE matches s at i.
MatchAt(s, i, lit) ==
    /\ i >= 1
    /\ i + Len(lit) - 1 <= Len(s)
    /\ \A k \in 1..Len(lit) : LowerChar(s[i + k - 1]) = LowerChar(lit[k])

\* A greedy character class C*: the position after the longest run of
\* characters of C that starts at i.  The classes that follow one another
\* in the script's patterns are disjoint, so giving characters back never
\* produces a match and the longest run is the only candidate.
RECURSIVE SkipWhile(_, _, _)
SkipWhile(s, i, C) ==
    IF i <= Len(s) /\ s[i] \in C THEN SkipWhile(s, i + 1, C) ELSE i

\* The alternation (w|kw|btu), tried in that order.
UnitAlternatives == << <<"w">>, <<"k", "w">>, <<"b", "t", "u">> >>

\* The alternative matched at i, as written in s, or <<>> when none does.
UnitAt(s, i) ==
    LET hits == {k \in 1..Len(UnitAlternatives) : MatchAt(s, i, UnitAlternatives[k])}
    IN  IF hits = {} THEN <<>>
        ELSE LET k == CHOOSE h \in hits : \A g \in hits : h <= g
             IN  SubSeq(s, i, i + Len(UnitAlternatives[k]) - 1)

Min(S) == CHOOSE x \in S : \A y \in S : x <= y

----------------------------------------------------------------------------
(* parse_power_value *)

\* str.replace(',', '.')
ReplaceComma(v) == [i \in 1..Len(v) |-> IF v[i] = "," THEN "." ELSE v[i]]

\* float(v) raises ValueError unless v is digits with at most one point
\* (v always starts with a digit here).
IsFloat(v) ==
    /\ \E i \in 1..Len(v) : v[i] \in Digits
    /\ \A i \in 1..Len(v) : v[i] \in Digits \cup {"."}
    /\ Cardinality({i \in 1..Len(v) : v[i] = "."}) <= 1

RECURSIVE Pow10(_)
Pow10(n) == IF n = 0 THEN 1 ELSE 10 * Pow10(n - 1)

\* The digits of v read as one integer, the point dropped.
RECURSIVE Mantissa(_)
Mantissa(v) ==
    IF v = <<>> THEN 0
    ELSE LET init == SubSeq(v, 1, Len(v) - 1)
             last == v[Len(v)]
         IN  IF last = "." THEN Mantissa(init)
             ELSE 10 * Mantissa(init) + DigitVal(last)

\* Number of digits after the point.
FracDigits(v) ==
    LET dots == {i \in 1..Len(v) : v[i] = "."}
    IN  IF dots = {} THEN 0 ELSE Len(v) - Min(dots)

\* conversions['btu'] = 0.29307107 = (BtuHigh * 10^4 + BtuLow) / 10^8
BtuHigh == 2930
BtuLow == 7107

\* float(v) * conversions[unit], exact: m / 10^f watts times the factor.
Convert(v, unit) ==
    LET m == Mantissa(v)
        f == FracDigits(v)
    IN  CASE unit = <<"w">> ->
               [w |-> m \div Pow10(f), nw |-> (m % Pow10(f)) * Pow10(9 - f)]
          [] unit = <<"k", "w">> ->
               [w |-> (m * 1000) \div Pow10(f),
                nw |-> ((m * 1000) % Pow10(f)) * Pow10(9 - f)]
          [] unit = <<"b", "t", "u">> ->
               LET k == m * Pow10(1 - f)          \* value in tenths of a btu
                   a == k * BtuHigh
                   b == k * BtuLow
                   q == a + (b \div 10000)
               IN  [w |-> q \div 100000,
                    nw |-> (q % 100000) * 10000 + (b % 10000)]

\* re.search(r'(\d+[\d.,]*)\s*(w|kw|btu)/?h?', val_str, re.IGNORECASE):
\* the attempt that starts at i.  group(1) is s[i .. e-1], group(2) the unit.
PowerMatchAt(s, i) ==
    IF i <= Len(s) /\ s[i] \in Digits
    THEN LET e == SkipWhile(s, i, Digits \cup NumSeps)
             u == UnitAt(s, SkipWhile(s, e, WhiteSpace))
         IN  IF u = <<>> THEN None
             ELSE [value |-> SubSeq(s, i, e - 1), unit |-> u]
    ELSE None

parse_power_value(s) ==
    LET starts == {i \in 1..Len(s) : PowerMatchAt(s, i) # None}
    IN  IF starts = {} THEN None
        ELSE LET m == PowerMatchAt(s, Min(starts))
                 v == ReplaceComma(m.value)
             IN  IF IsFloat(v) THEN Convert(v, Lower(m.unit)) ELSE None

----------------------------------------------------------------------------
(* find_energy_class and extract_specs_from_text *)

Class(c) == [cls |-> c]

L_consommation == <<"c","o","n","s","o","m","m","a","t","i","o","n">>
L_puissance_absorbee == <<"p","u","i","s","s","a","n","c","e"," ","a","b","s","o","r","b","é","e">>
L_power_consumption == <<"p","o","w","e","r"," ","c","o","n","s","u","m","p","t","i","o","n">>
L_puissance_frigorifique == <<"p","u","i","s","s","a","n","c","e"," ","f","r","i","g","o","r","i","f","i","q","u","e">>
L_cooling_capacity == <<"c","o","o","l","i","n","g"," ","c","a","p","a","c","i","t","y">>
L_capacity == <<"c","a","p","a","c","i","t","y">>
L_classe_energetique == <<"c","l","a","s","s","e"," ","é","n","e","r","g","é","t","i","q","u","e">>
L_energy_class == <<"e","n","e","r","g","y"," ","c","l","a","s","s">>
K_inverter == <<"i","n","v","e","r","t","e","r">>

\* (consommation|puissance absorbée|power consumption)
ConsumptionLabels == <<L_consommation, L_puissance_absorbee, L_power_consumption>>

\* (puissance frigorifique|cooling capacity|capacity)
CoolingLabels == <<L_puissance_frigorifique, L_cooling_capacity, L_capacity>>

\* (classe énergétique|energy class)
ClassLabels == <<L_classe_energetique, L_energy_class>>

\* [A-G] under re.IGNORECASE
ClassLetters == {"A", "B", "C", "D", "E", "F", "G", "a", "b", "c", "d", "e", "f", "g"}

\* (label)[:\s]*([\d.,]+\s*(w|kw|btu)) with the k-th label, attempted at i:
\* group(2), or None when the attempt fails.
FieldMatchWith(s, i, lab) ==
    IF MatchAt(s, i, lab)
    THEN LET j == SkipWhile(s, i + Len(lab), LabelSeps)
             e == SkipWhile(s, j, Digits \cup NumSeps)
             b == SkipWhile(s, e, WhiteSpace)
             u == UnitAt(s, b)
         IN  IF e > j /\ u # <<>>
             THEN [group2 |-> SubSeq(s, j, b + Len(u) - 1)]
             ELSE None
    ELSE None

\* The attempt at i: the first alternative of labels that gives a match.
FieldMatchAt(s, i, labels) ==
    LET hits == {k \in 1..Len(labels) : FieldMatchWith(s, i, labels[k]) # None}
    IN  IF hits = {} THEN None ELSE FieldMatchWith(s, i, labels[Min(hits)])

\* re.search: the leftmost position at which an attempt succeeds.
FieldSearch(s, labels) ==
    LET starts == {i \in 1..Len(s) : FieldMatchAt(s, i, labels) # None}
    IN  IF starts = {} THEN None ELSE FieldMatchAt(s, Min(starts), labels)

\* if match: specs[field] = parse_power_value(match.group(2))
FieldValue(s, labels) ==
    LET m == FieldSearch(s, labels)
    IN  IF m = None THEN None ELSE parse_power_value(m.group2)

\* (classe énergétique|energy class)[:\s]*([A-G][\+]*) attempted at i
\* with one label: group(2), or None.
ClassMatchWith(s, i, lab) ==
    IF MatchAt(s, i, lab)
    THEN LET j == SkipWhile(s, i + Len(lab), LabelSeps)
         IN  IF j <= Len(s) /\ s[j] \in ClassLetters
             THEN Class(SubSeq(s, j, SkipWhile(s, j + 1, {"+"}) - 1))
             ELSE None
    ELSE None

ClassMatchAt(s, i) ==
    LET hits == {k \in 1..Len(ClassLabels) : ClassMatchWith(s, i, ClassLabels[k]) # None}
    IN  IF hits = {} THEN None ELSE ClassMatchWith(s, i, ClassLabels[Min(hits)])

find_energy_class(s) ==
    LET starts == {i \in 1..Len(s) : ClassMatchAt(s, i) # None}
    IN  IF starts = {} THEN None ELSE ClassMatchAt(s, Min(starts))

\* 'inverter' in text
Contains(s, lit) ==
    \E i \in 1..Len(s) :
        /\ i + Len(lit) - 1 <= Len(s)
        /\ SubSeq(s, i, i + Len(lit) - 1) = lit

\* The text as searched when the line text = text.lower() is left out.
NormalizeSkipped(t) == t

\* text = text.lower()
Normalize(t) == Lower(t)

extract_specs_from_text(t) ==
    LET s == Normalize(t)
    IN  [consumption_w |-> FieldValue(s, ConsumptionLabels),
         cooling_w     |-> FieldValue(s, CoolingLabels),
         inverter      |-> IF Contains(s, K_inverter) THEN "Inverter" ELSE "Non-Inverter",
         energy_class  |-> find_energy_class(s)]

----------------------------------------------------------------------------
(* Inputs *)

ExampleText == <<"P","u","i","s","s","a","n","c","e"," ","a","b","s","o","r","b","é","e",":"," ","9","0","0","W",","," ","P","u","i","s","s","a","n","c","e"," ","f","r","i","g","o","r","i","f","i","q","u","e",":"," ","3",".","5","k","W",","," ","N","o","n","-","I","n","v","e","r","t","e","r",","," ","C","l","a","s","s","e"," ","é","n","e","r","g","é","t","i","q","u","e",":"," ","A","+","+">>

\* "Consommation: 850 W "
P1 == <<"C","o","n","s","o","m","m","a","t","i","o","n",":"," ","8","5","0"," ","W"," ">>
\* "power consumption 1.2.3 kw "
P2 == <<"p","o","w","e","r"," ","c","o","n","s","u","m","p","t","i","o","n"," ","1",".","2",".","3"," ","k","w"," ">>
\* "Capacity: ..5 kW "
P3 == <<"C","a","p","a","c","i","t","y",":"," ",".",".","5"," ","k","W"," ">>
\* "cooling capacity 12000 BTU/h "
P4 == <<"c","o","o","l","i","n","g"," ","c","a","p","a","c","i","t","y"," ","1","2","0","0","0"," ","B","T","U","/","h"," ">>
\* "Inverter Technology "
P5 == <<"I","n","v","e","r","t","e","r"," ","T","e","c","h","n","o","l","o","g","y"," ">>
\* "energy class a "
P6 == <<"e","n","e","r","g","y"," ","c","l","a","s","s"," ","a"," ">>
\* "Classe énergétique: B++++ "
P7 == <<"C","l","a","s","s","e"," ","é","n","e","r","g","é","t","i","q","u","e",":"," ","B","+","+","+","+"," ">>
\* "split mural "
P8 == <<"s","p","l","i","t"," ","m","u","r","a","l"," ">>
\* "puissance absorbée 0 w "
P9 == <<"p","u","i","s","s","a","n","c","e"," ","a","b","s","o","r","b","é","e"," ","0"," ","w"," ">>

Phrases == {P1, P2, P3, P4, P5, P6, P7, P8, P9}

RECURSIVE Concat(_)
Concat(ps) == IF ps = <<>> THEN <<>> ELSE Head(ps) \o Concat(Tail(ps))

\* The texts a PDF or a results page may hold.
Texts ==
    {ExampleText} \cup
    {Concat(ps) : ps \in UNION {[1..n -> Phrases] : n \in 0..MaxPhrases}}

\* extract_specs_from_text on each of these texts, computed once.
Extracted == [t \in Texts |-> extract_specs_from_text(t)]

\* The <a href=...> elements of a search page: element i is link i, which
\* may contain 'pdf' and may contain 'google.com'.
AnchorLists ==
    UNION {{a \in [1..n -> [n : 1..MaxLinks, pdf : BOOLEAN, google : BOOLEAN]] :
                \A i \in 1..n : a[i].n = i} : n \in 0..MaxLinks}

\* Options of the energy-class selectbox offered to the run.
ManualClasses == {Class(<<"A", "+", "+", "+">>), Class(<<"B">>)}

ManualConsumptions == {Watts(0), Watts(900)}

ManualCoolings == {Watts(0), Watts(3000)}

\* A script variable that was never assigned.
Unset == [unset |-> TRUE]

----------------------------------------------------------------------------
(* The script run *)

Init ==
    /\ pc = "button"
    /\ model_name \in BOOLEAN
    /\ button \in BOOLEAN
    /\ consumption \in ManualConsumptions
    /\ cooling_power \in ManualCoolings
    /\ energy_class \in ManualClasses
    /\ anchors = <<>>
    /\ pdf_links = <<>>
    /\ pdf_stage = "none"
    /\ html_stage = "none"
    /\ log = <<>>
    /\ text = None
    /\ ret = None
    /\ specs = None
    /\ final_consumption = Unset
    /\ final_cooling = Unset
    /\ shown_class = Unset
    /\ val_str = <<>>
    /\ parsed = None

inputs == <<model_name, button, consumption, cooling_power, energy_class>>
outputs == <<final_consumption, final_cooling, shown_class>>
direct == <<val_str, parsed>>

\* if st.button(...): if model_name: specs = fetch_product_specs(model_name)
Button ==
    /\ pc = "button"
    /\ pc' = IF button /\ model_name THEN "pdf_search" ELSE "merge"
    /\ UNCHANGED <<inputs, anchors, pdf_links, pdf_stage, html_stage, log,
                   text, ret, specs, outputs, direct>>

\* The PDF branch is entered again after it failed.
AfterPdfFailureRetry == "pdf_search"

\* A failure of the PDF branch ends the call.
AfterPdfFailureReturn == "gate"

\* Where the call goes on after the PDF branch gave no text: the except
\* clause passes, or the if is not taken, and the HTML branch follows.
AfterPdfFailure == "html_search"

\* The PDF branch ends without text for the given reason; its locals are
\* not read again.
PdfFails(reason) ==
    /\ pdf_stage' = reason
    /\ anchors' = <<>>
    /\ pdf_links' = <<>>
    /\ pc' = AfterPdfFailure

\* response = requests.get(search_url, ...); soup = BeautifulSoup(...)
PdfSearchRequest ==
    /\ pc = "pdf_search"
    /\ log' = Append(log, [req |-> "pdf_search", href |-> 0])
    /\ \/ PdfFails("net_fail")
       \/ /\ \E a \in AnchorLists : anchors' = a
          /\ pdf_stage' = "searched"
          /\ pc' = "pdf_scan"
          /\ UNCHANGED pdf_links
    /\ UNCHANGED <<inputs, html_stage, text, ret, specs, outputs, direct>>

\* [a['href'] for a in soup.find_all('a', href=True)
\*  if 'pdf' in a['href'].lower() and 'google.com' not in a['href']]
PdfLinkFilter(hrefs) == SelectSeq(hrefs, LAMBDA a : a.pdf /\ ~a.google)

\* if pdf_links:
PdfScan ==
    /\ pc = "pdf_scan"
    /\ IF PdfLinkFilter(anchors) # <<>>
       THEN /\ pdf_links' = PdfLinkFilter(anchors)
            /\ pc' = "pdf_unwrap"
            /\ pdf_stage' = "scanned"
            /\ UNCHANGED anchors
       ELSE PdfFails("no_links")
    /\ UNCHANGED <<inputs, html_stage, log, text, ret, specs, outputs, direct>>

\* pdf_links[-1]
PdfCandidateLast(links) == links[Len(links)]

\* pdf_links[0]
PdfCandidate(links) == links[1]

\* pdf_url = parse_qs(urlparse(pdf_links[0]).get('q', [pdf_links[0]])[0]
\* The expression is malformed in the source; it either gives the URL of
\* the first candidate or raises.
PdfUnwrap ==
    /\ pc = "pdf_unwrap"
    /\ \/ PdfFails("unwrap_fail")
       \/ /\ pc' = "pdf_download"
          /\ pdf_stage' = "unwrapped"
          /\ UNCHANGED <<anchors, pdf_links>>
    /\ UNCHANGED <<inputs, html_stage, log, text, ret, specs, outputs, direct>>

\* pdf_response = requests.get(pdf_url, headers=HEADERS, timeout=15)
PdfDownload ==
    /\ pc = "pdf_download"
    /\ log' = Append(log, [req |-> "pdf_download", href |-> PdfCandidate(pdf_links).n])
    /\ \/ PdfFails("download_fail")
       \/ /\ pc' = "pdf_decode"
          /\ pdf_stage' = "downloaded"
          /\ UNCHANGED <<anchors, pdf_links>>
    /\ UNCHANGED <<inputs, html_stage, text, ret, specs, outputs, direct>>

\* The call returns r and the script assigns it to specs; the locals die.
Return(r) ==
    /\ ret' = r
    /\ specs' = r
    /\ anchors' = <<>>
    /\ pdf_links' = <<>>
    /\ pc' = "gate"

\* reader = PdfReader(data); text = "\n".join(...);
\* return extract_specs_from_text(text)
PdfDecode ==
    /\ pc = "pdf_decode"
    /\ \/ /\ PdfFails("decode_fail")
          /\ UNCHANGED <<text, ret, specs>>
       \/ /\ \E t \in Texts :
                /\ text' = [txt |-> t]
                /\ Return(Extracted[t])
          /\ pdf_stage' = "text"
    /\ UNCHANGED <<inputs, html_stage, log, outputs, direct>>

\* except: return None
HtmlFailure == None

\* response = requests.get(f"https://www.google.com/search?q=...")
HtmlSearchRequest ==
    /\ pc = "html_search"
    /\ log' = Append(log, [req |-> "html_search", href |-> 0])
    /\ \/ /\ html_stage' = "net_fail"
          /\ Return(HtmlFailure)
       \/ /\ html_stage' = "searched"
          /\ pc' = "html_container"
          /\ UNCHANGED <<anchors, pdf_links, ret, specs>>
    /\ UNCHANGED <<inputs, pdf_stage, text, outputs, direct>>

\* main_content = soup.find('div', id='search').get_text()
\* return extract_specs_from_text(main_content)
HtmlContainer ==
    /\ pc = "html_container"
    /\ \/ /\ html_stage' = "no_container"
          /\ Return(HtmlFailure)
          /\ UNCHANGED text
       \/ /\ html_stage' = "text"
          /\ \E t \in Texts :
                /\ text' = [txt |-> t]
                /\ Return(Extracted[t])
    /\ UNCHANGED <<inputs, pdf_stage, log, outputs, direct>>

\* if specs and specs['consumption_w'] and specs['cooling_w']: ...
\* else: specs = None
Gated(s) ==
    IF s # None /\ Truthy(s.consumption_w) /\ Truthy(s.cooling_w) THEN s ELSE None

Gate ==
    /\ pc = "gate"
    /\ specs' = Gated(specs)
    /\ pc' = "merge"
    /\ UNCHANGED <<inputs, anchors, pdf_links, pdf_stage, html_stage, log,
                   text, ret, outputs, direct>>

\* if specs or any([consumption, cooling_power]):
Displayed(s, c, p) == s # None \/ Truthy(c) \/ Truthy(p)

\* final_consumption = specs['consumption_w'] if specs else consumption
MergeConsumption(s, manual) == IF s # None THEN s.consumption_w ELSE manual

\* final_cooling = specs['cooling_w'] if specs else cooling_power
MergeCooling(s, manual) == IF s # None THEN s.cooling_w ELSE manual

\* specs['energy_class'] if specs else energy_class
MergeClass(s, manual) == IF s # None THEN s.energy_class ELSE manual

Merge ==
    /\ pc = "merge"
    /\ IF Displayed(specs, consumption, cooling_power)
       THEN /\ final_consumption' = MergeConsumption(specs, consumption)
            /\ final_cooling' = MergeCooling(specs, cooling_power)
            /\ shown_class' = MergeClass(specs, energy_class)
       ELSE UNCHANGED outputs
    /\ pc' = "end"
    /\ UNCHANGED <<inputs, anchors, pdf_links, pdf_stage, html_stage, log,
                   text, ret, specs, direct>>

Next ==
    \/ Button
    \/ PdfSearchRequest
    \/ PdfScan
    \/ PdfUnwrap
    \/ PdfDownload
    \/ PdfDecode
    \/ HtmlSearchRequest
    \/ HtmlContainer
    \/ Gate
    \/ Merge

Spec == Init /\ [][Next]_vars

----------------------------------------------------------------------------
(* A direct call of parse_power_value *)

\* Number tokens: "1,5" "1.5" "500" "12000" "5" and the non-numeric "abc".
NumberTokens ==
    {<<"1", ",", "5">>, <<"1", ".", "5">>, <<"5", "0", "0">>,
     <<"1", "2", "0", "0", "0">>, <<"5">>, <<"a", "b", "c">>}

Spacings == {<<>>, <<" ">>}

\* Unit tokens: w, kw, btu in several letter cases, and the foreign units
\* lbs (pounds) and wb (weber).
UnitTokens ==
    {<<"w">>, <<"W">>, <<"k", "w">>, <<"K", "W">>, <<"k", "W">>,
     <<"b", "t", "u">>, <<"B", "t", "u">>, <<"B", "T", "U">>,
     <<"l", "b", "s">>, <<"w", "b">>}

UnitSuffixes == {<<>>, <<"/", "h">>, <<"h">>}

ValStrs ==
    {n \o sp \o u \o x : n \in NumberTokens, sp \in Spacings,
                         u \in UnitTokens, x \in UnitSuffixes}

InitParse ==
    /\ pc = "call"
    /\ val_str \in ValStrs
    /\ parsed = None
    /\ model_name = FALSE
    /\ button = FALSE
    /\ consumption = Watts(0)
    /\ cooling_power = Watts(0)
    /\ energy_class = Class(<<"A", "+", "+", "+">>)
    /\ anchors = <<>>
    /\ pdf_links = <<>>
    /\ pdf_stage = "none"
    /\ html_stage = "none"
    /\ log = <<>>
    /\ text = None
    /\ ret = None
    /\ specs = None
    /\ final_consumption = Unset
    /\ final_cooling = Unset
    /\ shown_class = Unset

\* parsed = parse_power_value(val_str)
ParseCall ==
    /\ pc = "call"
    /\ parsed' = parse_power_value(val_str)
    /\ pc' = "returned"
    /\ UNCHANGED <<inputs, anchors, pdf_links, pdf_stage, html_stage, log,
                   text, ret, specs, outputs, val_str>>

NextParse == ParseCall

SpecParse == InitParse /\ [][NextParse]_vars

----------------------------------------------------------------------------
(* Properties *)

Count(req) == Cardinality({i \in DOMAIN log : log[i].req = req})

\* The script called fetch_product_specs.
Called == button /\ model_name

\* The call of fetch_product_specs has returned.
Returned == Called /\ pc \in {"gate", "merge", "end"}

SpecFields == {"consumption_w", "cooling_w", "inverter", "energy_class"}

OccursAnyCase(t, lit) == \E i \in 1..Len(t) : MatchAt(t, i, lit)

OccursAny(t, labels) == \E k \in 1..Len(labels) : OccursAnyCase(t, labels[k])

\* C1: in one call the PDF search request is issued at most once and
\* before any other request, the HTML search request at most once and
\* never before a PDF search; when the call has returned the PDF search
\* was issued exactly once, and if it gave no text the HTML search was
\* issued exactly once, as the last request.
C1_FallbackOnce ==
    /\ Count("pdf_search") <= 1
    /\ Count("html_search") <= 1
    /\ \A i \in DOMAIN log : log[i].req = "pdf_search" => i = 1
    /\ \A i, j \in DOMAIN log :
          (log[i].req = "html_search" /\ j > i) => log[j].req # "pdf_search"
    /\ Returned =>
          /\ Count("pdf_search") = 1
          /\ log[1].req = "pdf_search"
          /\ pdf_stage # "text" =>
                /\ Count("html_search") = 1
                /\ log[Len(log)].req = "html_search"

\* C1 witness: no PDF link was found and the HTML search ran once.
C1_Witness ==
    /\ Returned
    /\ pdf_stage = "no_links"
    /\ Count("html_search") = 1

\* C2: a returned call gives None exactly when the PDF branch gave no text
\* and the HTML branch failed (request error or missing container); every
\* other call gives a four-field result, and every failure of the PDF
\* branch is followed by the HTML branch.
C2_NoErrorSurfaces ==
    Returned =>
        /\ ret = None <=>
              (pdf_stage # "text" /\ html_stage \in {"net_fail", "no_container"})
        /\ ret # None => DOMAIN ret = SpecFields
        /\ pdf_stage \in {"net_fail", "no_links", "unwrap_fail",
                          "download_fail", "decode_fail"} => html_stage # "none"

\* C2 witness: the PDF did not decode, the results container was missing,
\* and the call returned None.
C2_Witness ==
    /\ Returned
    /\ pdf_stage = "decode_fail"
    /\ html_stage = "no_container"
    /\ ret = None

\* C3: the text "Puissance absorbée: 900W, Puissance frigorifique: 3.5kW,
\* Non-Inverter, Classe énergétique: A++" is extracted as 900 W, 3500 W,
\* Non-Inverter and class "A++".
C3_EndToEnd ==
    (text # None /\ text.txt = ExampleText) =>
        ret = [consumption_w |-> Watts(900),
               cooling_w     |-> Watts(3500),
               inverter      |-> "Non-Inverter",
               energy_class  |-> Class(<<"A", "+", "+">>)]

\* The value the claims C4 and C5 give a merged field: the automatic value
\* when the automatic result exists and holds the field, else the manual one.
PerField(auto, field, manual) ==
    IF auto # None /\ auto[field] # None THEN auto[field] ELSE manual

\* C4: the displayed consumption and cooling are each the automatic value
\* when the automatic result exists and holds that field, whatever the
\* other field is, and the manual value otherwise.
C4_MergeIndependent ==
    (pc = "end" /\ final_consumption # Unset) =>
        /\ final_consumption = PerField(ret, "consumption_w", consumption)
        /\ final_cooling = PerField(ret, "cooling_w", cooling_power)

\* C5: the displayed energy class is the automatic class when the
\* automatic result exists and holds a class, and the manual class in
\* every other case.
C5_MergeClass ==
    (pc = "end" /\ shown_class # Unset) =>
        shown_class = PerField(ret, "energy_class", energy_class)

\* C6: every extraction result has the four fields; inverter is "Inverter"
\* exactly when the source text contains "inverter" in any letter case and
\* "Non-Inverter" otherwise; a field none of whose labels occurs in the
\* text is None.
C6_InverterResolved ==
    text # None =>
        /\ DOMAIN ret = SpecFields
        /\ ret.inverter \in {"Inverter", "Non-Inverter"}
        /\ ret.inverter = "Inverter" <=> OccursAnyCase(text.txt, K_inverter)
        /\ ~OccursAny(text.txt, ConsumptionLabels) => ret.consumption_w = None
        /\ ~OccursAny(text.txt, CoolingLabels) => ret.cooling_w = None
        /\ ~OccursAny(text.txt, ClassLabels) => ret.energy_class = None

\* C6 witness: the text "Inverter Technology " was extracted as Inverter.
C6_Witness ==
    /\ text # None
    /\ text.txt = P5
    /\ ret.inverter = "Inverter"

\* An upper-case letter A-G followed by at most three '+'.
ValidClasses ==
    {Class(<<l>> \o p) : l \in {"A", "B", "C", "D", "E", "F", "G"},
                        p \in {<<>>, <<"+">>, <<"+", "+">>, <<"+", "+", "+">>}}

\* C7: the energy class of every extraction result is None or an
\* upper-case letter A-G followed by at most three '+'; the text
\* "energy class a " gives "A".
C7_EnergyClassValues ==
    text # None =>
        /\ ret.energy_class \in {None} \cup ValidClasses
        /\ text.txt = P6 => ret.energy_class = Class(<<"A">>)

\* What the claim C8 gives for a number token n and a unit token u, in
\* whole watts and nanowatts.
ExpectedPower(n, u) ==
    LET units == IF u \in {<<"w">>, <<"W">>} THEN 1
                 ELSE IF u \in {<<"k", "w">>, <<"K", "W">>, <<"k", "W">>} THEN 2
                 ELSE IF u \in {<<"b", "t", "u">>, <<"B", "t", "u">>, <<"B", "T", "U">>} THEN 3
                 ELSE 0
        table == CASE n \in {<<"1", ",", "5">>, <<"1", ".", "5">>} ->
                        <<[w |-> 1, nw |-> 500000000], Watts(1500),
                          [w |-> 0, nw |-> 439606605]>>
                   [] n = <<"5", "0", "0">> ->
                        <<Watts(500), Watts(500000), [w |-> 146, nw |-> 535535000]>>
                   [] n = <<"1", "2", "0", "0", "0">> ->
                        <<Watts(12000), Watts(12000000), [w |-> 3516, nw |-> 852840000]>>
                   [] n = <<"5">> ->
                        <<Watts(5), Watts(5000), [w |-> 1, nw |-> 465355350]>>
                   [] OTHER -> <<>>
    IN  IF units = 0 \/ table = <<>> THEN None ELSE table[units]

\* C8: a decimal number followed by w, kw or btu (any letter case,
\* optionally followed by /h or h) parses to the number times 1, 1000 or
\* 0.29307107; any other unit and a non-numeric value parse to None.
C8_UnitConversion ==
    pc = "returned" =>
        \A n \in NumberTokens, sp \in Spacings, u \in UnitTokens, x \in UnitSuffixes :
            val_str = n \o sp \o u \o x => parsed = ExpectedPower(n, u)

\* C9: a text that is only a label followed by a malformed number and a
\* unit ("power consumption 1.2.3 kw ", "Capacity: ..5 kW ") is extracted
\* as if no label were found.
C9_MalformedNumberAbsent ==
    (text # None /\ text.txt \in {P2, P3}) =>
        ret = [consumption_w |-> None,
               cooling_w     |-> None,
               inverter      |-> "Non-Inverter",
               energy_class  |-> None]

\* The first <a href> that passes the PDF filter.
FirstPdfAnchor == Min({i \in DOMAIN anchors : anchors[i].pdf /\ ~anchors[i].google})

\* C10: at most one PDF is downloaded, and it is the first candidate; once
\* the PDF branch has decoded text the call has returned the extraction of
\* that text and no HTML search was or is issued.
C10_PdfTextIsFinal ==
    /\ Count("pdf_download") <= 1
    /\ pc = "pdf_decode" =>
          log[Len(log)] = [req |-> "pdf_download", href |-> FirstPdfAnchor]
    /\ pdf_stage = "text" =>
          /\ Returned
          /\ ret = Extracted[text.txt]
          /\ html_stage = "none"
          /\ Count("html_search") = 0

\* C10 witness: the script ended on a PDF text in which no consumption, no
\* cooling capacity and no energy class was found.
C10_Witness ==
    /\ pc = "end"
    /\ pdf_stage = "text"
    /\ Count("html_search") = 0
    /\ ret.consumption_w = None
    /\ ret.cooling_w = None
    /\ ret.energy_class = None

====
